---- MODULE Spec2Model ----
(***************************************************************************)
(* State-transition adapters of up-skdecide.                               *)
(*                                                                         *)
(*   up_skdecide/domain.py   DomainImpl over a grounded problem; a state   *)
(*                           is a list of values aligned to the key        *)
(*                           sequence of the initial values.               *)
(*   upf_skdecide/domain.py  the earlier DomainImpl; a state is a          *)
(*                           dictionary and actions carry parameters.      *)
(*   up_skdecide/engine.py   EngineImpl._solve, the rollout that turns     *)
(*                           sampled actions into a plan.                  *)
(*                                                                         *)
(* Expressions are evaluated by substitution and simplification; the       *)
(* result is a boolean constant, an integer constant, or a residual        *)
(* expression that is not a constant.                                      *)
(***************************************************************************)
EXTENDS Integers, Sequences, FiniteSets, TLC

\* Largest fluent value a caller lets a state reach.
MaxVal == 2

\* Largest number of transitions counted by the upf adapter's _count.
MaxCount == 3

\* Longest plan the rollout is followed for.
MaxPlan == 3

\* Largest number of keyword options a constructor is called with.
MaxOptions == 3

----------------------------------------------------------------------------
(* State.  impl says which code is running: "up" and "upf" are a caller   *)
(* driving one adapter, "engine" is EngineImpl._solve, "EngineImpl" and    *)
(* "SolverImpl" are a call of that class's constructor.                    *)

VARIABLES
    impl,        \* "up", "upf" or "engine"
    prob,        \* the problem the adapter was constructed over
    held,        \* TRUE once the caller holds a state
    mem,         \* the state object the caller holds (memory)
    last_error,  \* the domain's _last_error
    count,       \* the upf adapter's _count, -1 while it is not set
    ret,         \* the last call: its arguments and what it gave back
    rollout,     \* _solve: position, rollout state and plan
    options,     \* the keyword options a constructor is called with
    built        \* what the constructor call gave

vars ==
    <<impl, prob, held, mem, last_error, count, ret, rollout, options, built>>

----------------------------------------------------------------------------
(* Values: the constants an expression can simplify to. *)

BoolV(b) == [k |-> "bool", b |-> b, i |-> 0]

IntV(i) == [k |-> "int", b |-> FALSE, i |-> i]

\* A simplified expression that is not a constant.
SymV == [k |-> "sym", b |-> FALSE, i |-> 0]

\* ps.is_bool_constant() and ps.bool_constant_value()
IsTrue(v) == v.k = "bool" /\ v.b

----------------------------------------------------------------------------
(* Expressions. *)

Const(v) == [op |-> "const", v |-> v]

Fl(f) == [op |-> "fluent", n |-> f]

Par(p) == [op |-> "param", n |-> p]

Not(e) == [op |-> "not", e |-> e]

Eq(l, r) == [op |-> "eq", l |-> l, r |-> r]

Le(l, r) == [op |-> "le", l |-> l, r |-> r]

Plus(l, r) == [op |-> "plus", l |-> l, r |-> r]

Minus(l, r) == [op |-> "minus", l |-> l, r |-> r]

----------------------------------------------------------------------------
(* Insertion-ordered dictionaries: sequences of [key, val] entries. *)

Entry(k, v) == [key |-> k, val |-> v]

HasKey(d, k) == \E j \in 1..Len(d) : d[j].key = k

Get(d, k) == d[CHOOSE j \in 1..Len(d) : d[j].key = k].val

\* Put with an existing key taken out and put back last.
PutReinserting(d, k, v) ==
    Append(SelectSeq(d, LAMBDA en : en.key # k), Entry(k, v))

\* d[k] = v : an existing key keeps its position, a new key goes last.
Put(d, k, v) ==
    IF HasKey(d, k)
    THEN [j \in 1..Len(d) |-> IF d[j].key = k THEN Entry(k, v) ELSE d[j]]
    ELSE Append(d, Entry(k, v))

\* del d[k]
Del(d, k) == SelectSeq(d, LAMBDA en : en.key # k)

RECURSIVE UpdateFrom(_, _, _)
UpdateFrom(d, nd, j) ==
    IF j > Len(nd) THEN d
    ELSE UpdateFrom(Put(d, nd[j].key, nd[j].val), nd, j + 1)

\* d.update(nd)
Update(d, nd) == UpdateFrom(d, nd, 1)

\* list(d.values())
Values(d) == [j \in 1..Len(d) |-> d[j].val]

\* d.keys()
KeysOf(d) == [j \in 1..Len(d) |-> d[j].key]

\* {k: memory[i] for i, k in enumerate(keys)}
Zip(keys, memory) == [j \in 1..Len(keys) |-> Entry(keys[j], memory[j])]

----------------------------------------------------------------------------
(* Substitution and simplification of an expression under assignments. *)

RECURSIVE SubsSimplify(_, _)
SubsSimplify(e, asg) ==
    CASE e.op = "const" -> e.v
      [] e.op \in {"fluent", "param"} ->
            IF HasKey(asg, e.n) THEN Get(asg, e.n) ELSE SymV
      [] e.op = "not" ->
            LET v == SubsSimplify(e.e, asg)
            IN IF v.k = "bool" THEN BoolV(~v.b) ELSE SymV
      [] e.op = "eq" ->
            LET l == SubsSimplify(e.l, asg)
                r == SubsSimplify(e.r, asg)
            IN IF l.k = "sym" \/ r.k = "sym" \/ l.k # r.k THEN SymV
               ELSE BoolV(l = r)
      [] e.op = "le" ->
            LET l == SubsSimplify(e.l, asg)
                r == SubsSimplify(e.r, asg)
            IN IF l.k = "int" /\ r.k = "int" THEN BoolV(l.i <= r.i) ELSE SymV
      [] e.op = "plus" ->
            LET l == SubsSimplify(e.l, asg)
                r == SubsSimplify(e.r, asg)
            IN IF l.k = "int" /\ r.k = "int" THEN IntV(l.i + r.i) ELSE SymV
      [] e.op = "minus" ->
            LET l == SubsSimplify(e.l, asg)
                r == SubsSimplify(e.r, asg)
            IN IF l.k = "int" /\ r.k = "int" THEN IntV(l.i - r.i) ELSE SymV

----------------------------------------------------------------------------
(* Effects and actions. *)

Assign(f, v) ==
    [kind |-> "assign", fluent |-> f, value |-> v,
     conditional |-> FALSE, condition |-> Const(BoolV(TRUE))]

Increase(f, v) ==
    [kind |-> "increase", fluent |-> f, value |-> v,
     conditional |-> FALSE, condition |-> Const(BoolV(TRUE))]

Decrease(f, v) ==
    [kind |-> "decrease", fluent |-> f, value |-> v,
     conditional |-> FALSE, condition |-> Const(BoolV(TRUE))]

\* The effect eff under the guard c.
When(c, eff) == [eff EXCEPT !.conditional = TRUE, !.condition = c]

NoSim == [present |-> FALSE, fluents |-> <<>>, function |-> <<>>]

\* A simulated effect: its function returns one value per fluent, computed
\* from the state it is handed.
Sim(fs, exprs) == [present |-> TRUE, fluents |-> fs, function |-> exprs]

Action(n, params, actual, pre, effs, sim) ==
    [name |-> n, parameters |-> params, actual_parameters |-> actual,
     preconditions |-> pre, effects |-> effs, simulated_effect |-> sim]

One == Const(IntV(1))

Zero == Const(IntV(0))

ActionNames ==
    {"finish", "shift", "inc", "dec", "cond", "sim", "badguard", "badpre",
     "set"}

ActionOf(n) ==
    CASE n = "finish" ->
            Action(n, <<>>, <<>>, <<Not(Fl("done"))>>,
                   <<Assign("done", Const(BoolV(TRUE)))>>, NoSim)
      [] n = "shift" ->
            Action(n, <<>>, <<>>, <<>>,
                   <<Assign("x", Plus(Fl("x"), One)), Assign("y", Fl("x"))>>,
                   NoSim)
      [] n = "inc" ->
            Action(n, <<>>, <<>>,
                   <<Le(Fl("x"), Fl("y")), Not(Eq(Fl("y"), Zero))>>,
                   <<Increase("x", One)>>, NoSim)
      [] n = "dec" ->
            Action(n, <<>>, <<>>, <<Le(One, Fl("y"))>>,
                   <<Decrease("y", One)>>, NoSim)
      [] n = "cond" ->
            Action(n, <<>>, <<>>, <<>>,
                   <<When(Eq(Fl("x"), Fl("y")), Assign("y", Zero)),
                     When(Le(One, Fl("x")), Decrease("x", One))>>, NoSim)
      [] n = "sim" ->
            Action(n, <<>>, <<>>, <<Le(Fl("x"), One)>>,
                   <<Assign("x", Fl("y"))>>,
                   Sim(<<"y">>, <<Plus(Fl("x"), One)>>))
      [] n = "badguard" ->
            Action(n, <<>>, <<>>, <<>>,
                   <<When(Fl("x"), Assign("y", Zero))>>, NoSim)
      [] n = "badpre" ->
            Action(n, <<>>, <<>>, <<Plus(Fl("x"), One)>>,
                   <<Assign("x", Zero)>>, NoSim)
      [] n = "set" ->
            Action(n, <<"p">>, <<IntV(1)>>, <<Le(Fl("x"), Par("p"))>>,
                   <<Assign("y", Par("p"))>>, NoSim)

----------------------------------------------------------------------------
(* Problems: key sequence, declared action order, admissible initial      *)
(* values and goal sets.                                                   *)

GoalSet(g) ==
    CASE g = 1 -> <<Fl("done")>>
      [] g = 2 -> <<>>
      [] g = 3 -> <<Eq(Fl("x"), Const(IntV(2)))>>
      [] g = 4 -> <<Le(One, Fl("x")), Eq(Fl("x"), Fl("y"))>>
      [] g = 5 -> <<Le(Fl("x"), Fl("y")), Plus(Fl("x"), One)>>

ProblemNames == {"basic", "num", "lifted"}

KeysOfProblem(pn) == IF pn = "basic" THEN <<"done">> ELSE <<"x", "y">>

ActionsOfProblem(pn) ==
    CASE pn = "basic" -> <<"finish">>
      [] pn = "num" ->
            <<"shift", "inc", "dec", "cond", "sim", "badguard", "badpre">>
      [] pn = "lifted" -> <<"set", "inc", "shift", "cond">>

InitialValuesOf(pn) ==
    IF pn = "basic" THEN {<<BoolV(FALSE)>>}
    ELSE {<<IntV(a), IntV(b)>> : a \in 0..1, b \in 0..1}

GoalsOfProblem(pn) == IF pn = "basic" THEN {1} ELSE {2, 3, 4, 5}

\* The problems an adapter can be constructed over: the grounded adapter
\* takes problems whose actions have no parameters.
Problems(im) ==
    UNION {{[name |-> pn, init |-> iv, goals |-> g] :
                iv \in InitialValuesOf(pn), g \in GoalsOfProblem(pn)} :
           pn \in (IF im = "upf" THEN {"num", "lifted"} ELSE {"basic", "num"})}

----------------------------------------------------------------------------
(* The domain's last error: absent until first set, None after a reset,   *)
(* or the message naming a precondition (by position) and an action.      *)

ErrAbsent == [st |-> "absent", p |-> 0, a |-> ""]

ErrNone == [st |-> "none", p |-> 0, a |-> ""]

ErrMsg(j, n) == [st |-> "msg", p |-> j, a |-> n]

----------------------------------------------------------------------------
(* Pieces shared by the two adapters. *)

\* The loop over the preconditions: the position of the first one that does
\* not simplify to the constant true, 0 when there is none.
RECURSIVE FirstViolated(_, _, _)
FirstViolated(pre, j, asg) ==
    IF j > Len(pre) THEN 0
    ELSE IF ~IsTrue(SubsSimplify(pre[j], asg)) THEN j
    ELSE FirstViolated(pre, j + 1, asg)

\* A fluent without arguments grounds to itself.
GetGroundFluent(f, asg) == f

\* The value an applied effect writes, computed under asg.
EffectValue(e, asg) ==
    CASE e.kind = "assign" -> SubsSimplify(e.value, asg)
      [] e.kind = "increase" -> SubsSimplify(Plus(Fl(e.fluent), e.value), asg)
      [] e.kind = "decrease" -> SubsSimplify(Minus(Fl(e.fluent), e.value), asg)

\* EffectLoop with every applied effect written into the assignments the
\* following effects are computed under.
RECURSIVE EffectLoopSequential(_, _, _, _)
EffectLoopSequential(effs, j, asg, new) ==
    IF j > Len(effs) THEN [ok |-> TRUE, new |-> new]
    ELSE LET e == effs[j]
             ec == IF e.conditional THEN SubsSimplify(e.condition, asg)
                   ELSE BoolV(TRUE)
         IN IF ec.k # "bool" THEN [ok |-> FALSE, new |-> new]
            ELSE IF ec.b
                 THEN EffectLoopSequential(effs, j + 1,
                          Put(asg, e.fluent, EffectValue(e, asg)),
                          Put(new, e.fluent, EffectValue(e, asg)))
                 ELSE EffectLoopSequential(effs, j + 1, asg, new)

\* EffectLoop with an effect whose guard is not a boolean constant passed
\* over like one whose guard is false.
RECURSIVE EffectLoopPassingOver(_, _, _, _)
EffectLoopPassingOver(effs, j, asg, new) ==
    IF j > Len(effs) THEN [ok |-> TRUE, new |-> new]
    ELSE LET e == effs[j]
             ec == IF e.conditional THEN SubsSimplify(e.condition, asg)
                   ELSE BoolV(TRUE)
         IN IF IsTrue(ec)
            THEN EffectLoopPassingOver(effs, j + 1, asg,
                     Put(new, e.fluent, EffectValue(e, asg)))
            ELSE EffectLoopPassingOver(effs, j + 1, asg, new)

\* The loop over the effects.  new collects the new assignments; ok is
\* FALSE when a guard fails the assertion that it is a boolean constant.
RECURSIVE EffectLoop(_, _, _, _)
EffectLoop(effs, j, asg, new) ==
    IF j > Len(effs) THEN [ok |-> TRUE, new |-> new]
    ELSE LET e == effs[j]
             ec == IF e.conditional THEN SubsSimplify(e.condition, asg)
                   ELSE BoolV(TRUE)
         IN IF ec.k # "bool" THEN [ok |-> FALSE, new |-> new]
            ELSE IF ec.b
                 THEN EffectLoop(effs, j + 1, asg,
                                 Put(new, GetGroundFluent(e.fluent, asg),
                                     EffectValue(e, asg)))
                 ELSE EffectLoop(effs, j + 1, asg, new)

Min(a, b) == IF a < b THEN a ELSE b

\* The simulated effect's function on State(asg), zipped with its fluents.
SimulatedAssignments(sim, asg) ==
    [j \in 1..Min(Len(sim.fluents), Len(sim.function)) |->
        Entry(sim.fluents[j], SubsSimplify(sim.function[j], asg))]

RECURSIVE DelAll(_, _, _)
DelAll(d, ks, j) ==
    IF j > Len(ks) THEN d ELSE DelAll(Del(d, ks[j]), ks, j + 1)

----------------------------------------------------------------------------
(* up_skdecide/domain.py *)

\* The effect loop followed by the simulated effect: the new assignments
\* of one transition.
NewAssignments(a, assignments) ==
    LET el == EffectLoop(a.effects, 1, assignments, <<>>)
    IN IF el.ok /\ a.simulated_effect.present
       THEN [ok |-> TRUE,
             new |-> Update(el.new,
                            SimulatedAssignments(a.simulated_effect,
                                                 assignments))]
       ELSE el

NoState(kind, err) ==
    [kind |-> kind, state |-> <<>>, keys |-> <<>>, err |-> err]

\* GetNextState with the last error cleared by a transition that succeeds.
GetNextStateClearing(keys, memory, a, err) ==
    IF Len(a.parameters) # 0 THEN NoState("assert", err)
    ELSE
      LET assignments == Zip(keys, memory)
          bad == FirstViolated(a.preconditions, 1, assignments)
          na == NewAssignments(a, assignments)
          merged == DelAll(Update(assignments, na.new), a.parameters, 1)
      IN IF bad # 0 THEN NoState("false", ErrMsg(bad, a.name))
         ELSE IF ~na.ok THEN NoState("assert", err)
         ELSE [kind |-> "state", state |-> Values(merged),
               keys |-> KeysOf(merged), err |-> ErrNone]

\* GetNextState with a violated precondition raised instead of recorded.
GetNextStateRaising(keys, memory, a, err) ==
    IF Len(a.parameters) # 0 THEN NoState("assert", err)
    ELSE
      LET assignments == Zip(keys, memory)
          bad == FirstViolated(a.preconditions, 1, assignments)
          na == NewAssignments(a, assignments)
          merged == DelAll(Update(assignments, na.new), a.parameters, 1)
      IN IF bad # 0 THEN NoState("assert", err)
         ELSE IF ~na.ok THEN NoState("assert", err)
         ELSE [kind |-> "state", state |-> Values(merged),
               keys |-> KeysOf(merged), err |-> err]

\* GetNextState with the new assignments merged over the initial values
\* instead of over the state passed in.
GetNextStateOverInitial(keys, memory, a, err) ==
    IF Len(a.parameters) # 0 THEN NoState("assert", err)
    ELSE
      LET assignments == Zip(keys, memory)
          bad == FirstViolated(a.preconditions, 1, assignments)
          na == NewAssignments(a, assignments)
          merged == DelAll(Update(Zip(keys, prob.init), na.new),
                           a.parameters, 1)
      IN IF bad # 0 THEN NoState("false", ErrMsg(bad, a.name))
         ELSE IF ~na.ok THEN NoState("assert", err)
         ELSE [kind |-> "state", state |-> Values(merged),
               keys |-> KeysOf(merged), err |-> err]

\* _get_next_state.  kind is "state" (a list of values is returned; keys
\* are the keys of the dictionary the values are taken from), "false"
\* (False is returned and the last error is set) or "assert".
GetNextState(keys, memory, a, err) ==
    IF Len(a.parameters) # 0 THEN NoState("assert", err)
    ELSE
      LET assignments == Zip(keys, memory)
          bad == FirstViolated(a.preconditions, 1, assignments)
          na == NewAssignments(a, assignments)
          merged == DelAll(Update(assignments, na.new), a.parameters, 1)
      IN IF bad # 0 THEN NoState("false", ErrMsg(bad, a.name))
         ELSE IF ~na.ok THEN NoState("assert", err)
         ELSE [kind |-> "state", state |-> Values(merged),
               keys |-> KeysOf(merged), err |-> err]

\* GoalLoop passing over a goal that is not a boolean constant.
RECURSIVE GoalLoopSkipping(_, _, _)
GoalLoopSkipping(goals, j, state) ==
    IF j > Len(goals) THEN TRUE
    ELSE LET gs == SubsSimplify(goals[j], state)
         IN IF gs.k = "bool" /\ ~gs.b THEN FALSE
            ELSE GoalLoopSkipping(goals, j + 1, state)

\* GoalLoop testing only the first goal.
GoalLoopFirst(goals, j, state) ==
    IF j > Len(goals) THEN TRUE
    ELSE IsTrue(SubsSimplify(goals[j], state))

\* _is_terminal
RECURSIVE GoalLoop(_, _, _)
GoalLoop(goals, j, state) ==
    IF j > Len(goals) THEN TRUE
    ELSE IF ~IsTrue(SubsSimplify(goals[j], state)) THEN FALSE
    ELSE GoalLoop(goals, j + 1, state)

IsTerminal(keys, goals, memory) == GoalLoop(goals, 1, Zip(keys, memory))

\* _get_applicable_actions_from
RECURSIVE ApplicableLoop(_, _, _, _)
ApplicableLoop(acts, j, state, out) ==
    IF j > Len(acts) THEN out
    ELSE LET ai == ActionOf(acts[j])
             all_preconditions_hold ==
                 FirstViolated(ai.preconditions, 1, state) = 0
         IN ApplicableLoop(acts, j + 1, state,
                           IF all_preconditions_hold
                           THEN Append(out, acts[j]) ELSE out)

GetApplicableActionsFrom(keys, acts, memory) ==
    ApplicableLoop(acts, 1, Zip(keys, memory), <<>>)

----------------------------------------------------------------------------
(* upf_skdecide/domain.py *)

RECURSIVE BindParameters(_, _, _, _)
BindParameters(memory, ps, actual, j) ==
    IF j > Min(Len(ps), Len(actual)) THEN memory
    ELSE BindParameters(Put(memory, ps[j], actual[j]), ps, actual, j + 1)

\* _get_next_state.  memory is the dictionary passed in; mem is that same
\* dictionary when the call is over.
UpfGetNextState(memory, a) ==
    LET bound == BindParameters(memory, a.parameters, a.actual_parameters, 1)
        el == EffectLoop(a.effects, 1, bound, <<>>)
        next_state == DelAll(Update(bound, el.new), a.parameters, 1)
    IN IF ~el.ok
       THEN [kind |-> "assert", state |-> <<>>, keys |-> <<>>, mem |-> bound]
       ELSE [kind |-> "state", state |-> next_state,
             keys |-> KeysOf(next_state), mem |-> bound]

\* _is_terminal
UpfIsTerminal(goals, state) == GoalLoop(goals, 1, state)

\* _get_applicable_actions_from: an action is appended once for each of
\* its preconditions that holds.
RECURSIVE UpfPreLoop(_, _, _, _, _)
UpfPreLoop(n, pre, j, memory, out) ==
    IF j > Len(pre) THEN out
    ELSE UpfPreLoop(n, pre, j + 1, memory,
                    IF IsTrue(SubsSimplify(pre[j], memory))
                    THEN Append(out, n) ELSE out)

RECURSIVE UpfApplicableLoop(_, _, _, _)
UpfApplicableLoop(acts, j, memory, out) ==
    IF j > Len(acts) THEN out
    ELSE UpfApplicableLoop(acts, j + 1, memory,
             UpfPreLoop(acts[j], ActionOf(acts[j]).preconditions, 1,
                        memory, out))

UpfGetApplicableActionsFrom(acts, memory) ==
    UpfApplicableLoop(acts, 1, memory, <<>>)

----------------------------------------------------------------------------
(* Construction of EngineImpl (engine.py) and SolverImpl (solver.py).     *)
(* A keyword-option dictionary is a function from option names to the    *)
(* objects passed: IW is a class derived from skdecide's Solver, iw is an *)
(* instance of it, object is a class that is not derived from it, cfg is  *)
(* a dictionary and num is a number.                                       *)

OptionNames == {"solver", "config", "simulator_params", "verbose"}

OptionValues == {"IW", "iw", "object", "cfg", "num"}

OptionSets ==
    UNION {[S -> OptionValues] :
              S \in {T \in SUBSET OptionNames : Cardinality(T) <= MaxOptions}}

\* len(options)
NumOptions(o) == Cardinality(DOMAIN o)

IsClass(v) == v \in {"IW", "object"}

\* issubclass(v, SkDecideSolver), for v a class
IsSolverClass(v) == v = "IW"

\* isinstance(v, dict)
IsDict(v) == v \in {"cfg", "default_config"}

\* isinstance(v, SkDecideSolver)
IsSolverInstance(v) == v = "iw"

\* No constructor has been called yet.
NotBuilt == [kind |-> "none", solver |-> "", config |-> "",
             simulator_params |-> ""]

\* The constructor raised the exception exc and there is no object.
Raised(exc) == [kind |-> exc, solver |-> "", config |-> "",
                simulator_params |-> ""]

\* EngineImpl.__init__: the chain of 'or' stops at the first true operand;
\* issubclass raises TypeError on an argument that is not a class.
EngineImplInit(o) ==
    IF NumOptions(o) = 0
    THEN [kind |-> "engine", solver |-> "IW", config |-> "default_config",
          simulator_params |-> "empty_dict"]
    ELSE IF NumOptions(o) # 2 \/ "solver" \notin DOMAIN o
    THEN Raised("RuntimeError")
    ELSE IF ~IsClass(o["solver"]) THEN Raised("TypeError")
    ELSE IF ~IsSolverClass(o["solver"]) \/ "config" \notin DOMAIN o
            \/ ~IsDict(o["config"])
    THEN Raised("RuntimeError")
    ELSE [kind |-> "engine", solver |-> o["solver"], config |-> o["config"],
          simulator_params |->
              IF "simulator_params" \in DOMAIN o
              THEN o["simulator_params"] ELSE "empty_dict"]

\* SolverImpl.__init__
SolverImplInit(o) ==
    IF NumOptions(o) # 2 \/ "solver" \notin DOMAIN o
       \/ ~IsSolverInstance(o["solver"])
    THEN Raised("RuntimeError")
    ELSE [kind |-> "solver", solver |-> o["solver"], config |-> "",
          simulator_params |-> ""]

----------------------------------------------------------------------------
(* The adapters in use. *)

Keys == KeysOfProblem(prob.name)

Acts == ActionsOfProblem(prob.name)

Goals == GoalSet(prob.goals)

NoRet ==
    [op |-> "none", action |-> "", arg |-> <<>>, after |-> <<>>,
     kind |-> "none", state |-> <<>>, keys |-> <<>>, acts |-> <<>>,
     b |-> FALSE]

\* The caller stops following a branch whose values leave -1..MaxVal.
InBounds(vals) ==
    \A j \in 1..Len(vals) :
        vals[j].k = "int" => vals[j].i \in (0 - 1)..MaxVal

\* steps counts the transitions the rollout has performed; status is the
\* status of the result once _solve has returned.
RolloutOff ==
    [pc |-> "off", valid |-> FALSE, state |-> <<>>, plan |-> <<>>,
     steps |-> 0, status |-> ""]

Init ==
    /\ impl \in {"up", "upf", "engine"}
    /\ prob \in Problems(impl)
    /\ held = FALSE
    /\ mem = <<>>
    /\ last_error = IF impl = "upf" THEN ErrNone ELSE ErrAbsent
    /\ count = 0 - 1
    /\ ret = NoRet
    /\ rollout = IF impl = "engine"
                 THEN [RolloutOff EXCEPT !.pc = "start"] ELSE RolloutOff
    /\ options = <<>>
    /\ built = NotBuilt

----------------------------------------------------------------------------
(* A caller of up_skdecide's DomainImpl. *)

\* _get_initial_state_
Reset ==
    /\ impl = "up"
    /\ last_error' = ErrNone
    /\ mem' = prob.init
    /\ held' = TRUE
    /\ ret' = [NoRet EXCEPT !.op = "reset", !.kind = "state",
                            !.state = prob.init, !.keys = Keys]
    /\ UNCHANGED <<options, built>>
    /\ UNCHANGED <<impl, prob, count, rollout>>

\* _get_next_state(memory, a); the caller goes on from the successor or
\* stays on the state it expanded.
Next_State(a, move) ==
    /\ impl = "up"
    /\ held
    /\ LET r == GetNextState(Keys, mem, ActionOf(a), last_error)
       IN /\ r.kind = "state" => InBounds(r.state)
          /\ last_error' = r.err
          /\ mem' = IF r.kind = "state" /\ move THEN r.state ELSE mem
          /\ ret' = [NoRet EXCEPT !.op = "next", !.action = a,
                                  !.arg = mem, !.after = mem,
                                  !.kind = r.kind, !.state = r.state,
                                  !.keys = r.keys]
    /\ UNCHANGED <<options, built>>
    /\ UNCHANGED <<impl, prob, held, count, rollout>>

\* _is_terminal(memory)
Is_Terminal ==
    /\ impl = "up"
    /\ held
    /\ ret' = [NoRet EXCEPT !.op = "terminal", !.arg = mem,
                            !.after = mem, !.kind = "bool",
                            !.b = IsTerminal(Keys, Goals, mem)]
    /\ UNCHANGED <<options, built>>
    /\ UNCHANGED <<impl, prob, held, mem, last_error, count, rollout>>

\* _get_applicable_actions_from(memory)
Applicable ==
    /\ impl = "up"
    /\ held
    /\ ret' = [NoRet EXCEPT !.op = "applicable", !.arg = mem,
                            !.after = mem, !.kind = "list",
                            !.acts = GetApplicableActionsFrom(Keys, Acts,
                                                              mem)]
    /\ UNCHANGED <<options, built>>
    /\ UNCHANGED <<impl, prob, held, mem, last_error, count, rollout>>

----------------------------------------------------------------------------
(* A caller of upf_skdecide's DomainImpl. *)

\* _get_initial_state_
UpfReset ==
    /\ impl = "upf"
    /\ last_error' = ErrNone
    /\ count' = 0
    /\ mem' = Zip(Keys, prob.init)
    /\ held' = TRUE
    /\ ret' = [NoRet EXCEPT !.op = "reset", !.kind = "state",
                            !.state = Zip(Keys, prob.init), !.keys = Keys]
    /\ UNCHANGED <<options, built>>
    /\ UNCHANGED <<impl, prob, rollout>>

\* _get_next_state(memory, a); the caller goes on from the successor or
\* stays on the dictionary it passed in.
UpfNext_State(a, move) ==
    /\ impl = "upf"
    /\ held
    /\ count < MaxCount
    /\ LET r == UpfGetNextState(mem, ActionOf(a))
       IN /\ r.kind = "state" => InBounds(Values(r.state))
          /\ count' = count + 1
          /\ mem' = IF r.kind = "state" /\ move THEN r.state ELSE r.mem
          /\ ret' = [NoRet EXCEPT !.op = "next", !.action = a,
                                  !.arg = mem, !.after = r.mem,
                                  !.kind = r.kind, !.state = r.state,
                                  !.keys = r.keys]
    /\ UNCHANGED <<options, built>>
    /\ UNCHANGED <<impl, prob, held, last_error, rollout>>

\* _is_terminal(memory)
UpfIs_Terminal ==
    /\ impl = "upf"
    /\ held
    /\ ret' = [NoRet EXCEPT !.op = "terminal", !.arg = mem,
                            !.after = mem, !.kind = "bool",
                            !.b = UpfIsTerminal(Goals, mem)]
    /\ UNCHANGED <<options, built>>
    /\ UNCHANGED <<impl, prob, held, mem, last_error, count, rollout>>

\* _get_applicable_actions_from(memory)
UpfApplicable ==
    /\ impl = "upf"
    /\ held
    /\ ret' = [NoRet EXCEPT !.op = "applicable", !.arg = mem,
                            !.after = mem, !.kind = "list",
                            !.acts = UpfGetApplicableActionsFrom(Acts,
                                                                 mem)]
    /\ UNCHANGED <<options, built>>
    /\ UNCHANGED <<impl, prob, held, mem, last_error, count, rollout>>

----------------------------------------------------------------------------
(* EngineImpl._solve: the rollout over a fresh domain.  The solver is     *)
(* outside the repository; sample_action may hand back any action of the  *)
(* action space.                                                           *)

\* TerminalTest with the loop left as soon as a transition has failed.
TerminalTestStopOnFailure(st) ==
    IF ~st.valid THEN "true"
    ELSE IF IsTerminal(Keys, Goals, st.state) THEN "true" ELSE "false"

\* rollout_domain.is_terminal(state): "raise" when state is the False a
\* failed transition returned and there is a key to index it with.
TerminalTest(st) ==
    IF ~st.valid /\ Len(Keys) > 0 THEN "raise"
    ELSE IF IsTerminal(Keys, Goals, st.state) THEN "true" ELSE "false"

\* plan = []; solver.solve(); state = rollout_domain.reset()
SolveStart ==
    /\ impl = "engine"
    /\ rollout.pc = "start"
    /\ last_error' = ErrNone
    /\ rollout' = [pc |-> "loop", valid |-> TRUE, state |-> prob.init,
                   plan |-> <<>>, steps |-> 0, status |-> ""]
    /\ UNCHANGED <<options, built>>
    /\ UNCHANGED <<impl, prob, held, mem, count, ret>>

\* RolloutStep with the loop test made after the first iteration only.
RolloutStepTestedLate(a) ==
    /\ impl = "engine"
    /\ rollout.pc = "loop"
    /\ TerminalTest(rollout) = "false" \/ rollout.steps = 0
    /\ Len(rollout.plan) < MaxPlan
    /\ LET r == GetNextState(Keys, rollout.state, ActionOf(a), last_error)
       IN /\ r.kind = "state" => InBounds(r.state)
          /\ last_error' = r.err
          /\ rollout' =
               IF r.kind = "assert"
               THEN [rollout EXCEPT !.pc = "raised"]
               ELSE [pc |-> "loop", valid |-> r.kind = "state",
                     state |-> r.state, plan |-> Append(rollout.plan, a),
                     steps |-> rollout.steps + 1, status |-> ""]
    /\ UNCHANGED <<options, built>>
    /\ UNCHANGED <<impl, prob, held, mem, count, ret>>

\* One iteration of the while loop.
RolloutStep(a) ==
    /\ impl = "engine"
    /\ rollout.pc = "loop"
    /\ TerminalTest(rollout) = "false"
    /\ Len(rollout.plan) < MaxPlan
    /\ LET r == GetNextState(Keys, rollout.state, ActionOf(a), last_error)
       IN /\ r.kind = "state" => InBounds(r.state)
          /\ last_error' = r.err
          /\ rollout' =
               IF r.kind = "assert"
               THEN [rollout EXCEPT !.pc = "raised"]
               ELSE [pc |-> "loop", valid |-> r.kind = "state",
                     state |-> r.state, plan |-> Append(rollout.plan, a),
                     steps |-> rollout.steps + 1, status |-> ""]
    /\ UNCHANGED <<options, built>>
    /\ UNCHANGED <<impl, prob, held, mem, count, ret>>

\* The loop test raises on a state that is not a list.
RolloutRaise ==
    /\ impl = "engine"
    /\ rollout.pc = "loop"
    /\ TerminalTest(rollout) = "raise"
    /\ rollout' = [rollout EXCEPT !.pc = "raised"]
    /\ UNCHANGED <<options, built>>
    /\ UNCHANGED <<impl, prob, held, mem, last_error, count, ret>>

\* The loop ends; the plan is returned with SOLVED_SATISFICING.
SolveReturn ==
    /\ impl = "engine"
    /\ rollout.pc = "loop"
    /\ TerminalTest(rollout) = "true"
    /\ rollout' = [rollout EXCEPT !.pc = "returned",
                                  !.status = "SOLVED_SATISFICING"]
    /\ UNCHANGED <<options, built>>
    /\ UNCHANGED <<impl, prob, held, mem, last_error, count, ret>>

----------------------------------------------------------------------------
(* A caller constructing an engine from keyword options. *)

InitConstruct ==
    /\ impl \in {"EngineImpl", "SolverImpl"}
    /\ options \in OptionSets
    /\ built = NotBuilt
    /\ prob = [name |-> "basic", init |-> <<BoolV(FALSE)>>, goals |-> 1]
    /\ held = FALSE
    /\ mem = <<>>
    /\ last_error = ErrAbsent
    /\ count = 0 - 1
    /\ ret = NoRet
    /\ rollout = RolloutOff

\* EngineImpl(**options)
ConstructEngine ==
    /\ impl = "EngineImpl"
    /\ built = NotBuilt
    /\ built' = EngineImplInit(options)
    /\ UNCHANGED <<impl, prob, held, mem, last_error, count, ret, rollout,
                   options>>

\* SolverImpl(**options)
ConstructSolver ==
    /\ impl = "SolverImpl"
    /\ built = NotBuilt
    /\ built' = SolverImplInit(options)
    /\ UNCHANGED <<impl, prob, held, mem, last_error, count, ret, rollout,
                   options>>

NextConstruct == ConstructEngine \/ ConstructSolver

SpecConstruct == InitConstruct /\ [][NextConstruct]_vars

----------------------------------------------------------------------------

Next ==
    \/ Reset
    \/ \E a \in ActionNames, move \in BOOLEAN :
          /\ \E j \in 1..Len(Acts) : Acts[j] = a
          /\ Next_State(a, move)
    \/ Is_Terminal
    \/ Applicable
    \/ UpfReset
    \/ \E a \in ActionNames, move \in BOOLEAN :
          /\ \E j \in 1..Len(Acts) : Acts[j] = a
          /\ UpfNext_State(a, move)
    \/ UpfIs_Terminal
    \/ UpfApplicable
    \/ SolveStart
    \/ \E a \in ActionNames :
          /\ \E j \in 1..Len(Acts) : Acts[j] = a
          /\ RolloutStep(a)
    \/ RolloutRaise
    \/ SolveReturn

Spec == Init /\ [][Next]_vars

----------------------------------------------------------------------------
(* What the properties below speak of, said without the adapters' loops.   *)

\* The assignments the last call's argument stands for.
ArgAssignments == IF impl = "upf" THEN ret.arg ELSE Zip(Keys, ret.arg)

\* Every precondition of the action named n is the constant true under asg.
AllPreconditionsHold(n, asg) ==
    \A j \in 1..Len(ActionOf(n).preconditions) :
        IsTrue(SubsSimplify(ActionOf(n).preconditions[j], asg))

\* The effect e is applied under asg: it has no guard or its guard is true.
IsApplied(e, asg) ==
    ~e.conditional \/ IsTrue(SubsSimplify(e.condition, asg))

\* The positions of the simulated-effect outputs of a that write fluent f.
SimWriters(a, f) ==
    {j \in 1..Min(Len(a.simulated_effect.fluents),
                  Len(a.simulated_effect.function)) :
        a.simulated_effect.present /\ a.simulated_effect.fluents[j] = f}

\* The positions of the effects of a that are applied under asg and write f.
EffectWriters(a, f, asg) ==
    {j \in 1..Len(a.effects) :
        a.effects[j].fluent = f /\ IsApplied(a.effects[j], asg)}

IsTargeted(a, f, asg) == SimWriters(a, f) # {} \/ EffectWriters(a, f, asg) # {}

Last(S) == CHOOSE j \in S : \A i \in S : i <= j

\* The value the last writer of f computes from asg alone.
ValueFromPreState(a, f, asg) ==
    IF SimWriters(a, f) # {}
    THEN SubsSimplify(a.simulated_effect.function[Last(SimWriters(a, f))], asg)
    ELSE LET e == a.effects[Last(EffectWriters(a, f, asg))]
         IN CASE e.kind = "assign" -> SubsSimplify(e.value, asg)
              [] e.kind = "increase" ->
                    IntV(Get(asg, f).i + SubsSimplify(e.value, asg).i)
              [] e.kind = "decrease" ->
                    IntV(Get(asg, f).i - SubsSimplify(e.value, asg).i)

\* The last call was a transition of the grounded adapter that gave a state.
UpSucceeded == impl = "up" /\ ret.op = "next" /\ ret.kind = "state"

----------------------------------------------------------------------------
(* Properties. *)

\* C1: a transition gives back a state only when every precondition of the
\* action is the constant true in the state it was called on; an action
\* that is not applicable never yields a successor.
C1_OnlyApplicableYieldsState ==
    (ret.op = "next" /\ ret.kind = "state")
        => AllPreconditionsHold(ret.action, ArgAssignments)

\* C2: every value a transition writes is computed from the pre-transition
\* state alone, so no effect sees what another effect wrote; shift
\* (x := x + 1, y := x) takes {x: 1, y: 0} to {x: 2, y: 1}.
C2_EffectsReadPreState ==
    UpSucceeded =>
        /\ \A j \in 1..Len(Keys) :
              IsTargeted(ActionOf(ret.action), Keys[j], ArgAssignments)
                  => /\ j <= Len(ret.state)
                     /\ ret.state[j] =
                          ValueFromPreState(ActionOf(ret.action), Keys[j],
                                            ArgAssignments)
        /\ (ret.action = "shift" /\ ret.arg = <<IntV(1), IntV(0)>>)
              => ret.state = <<IntV(2), IntV(1)>>

C2_Witness ==
    /\ UpSucceeded
    /\ ret.action = "shift"
    /\ ret.arg = <<IntV(1), IntV(0)>>
    /\ ret.state = <<IntV(2), IntV(1)>>

\* C3: a successor has the key sequence of its predecessor, same length,
\* same keys, same order, and the state a caller holds always has one
\* value per key of the fixed key sequence.
C3_KeySequencePreserved ==
    /\ UpSucceeded =>
          /\ ret.keys = Keys
          /\ Len(ret.state) = Len(ret.arg)
          /\ Len(ret.state) = Len(Keys)
    /\ (impl = "up" /\ held) => Len(mem) = Len(Keys)

C3_Witness ==
    /\ UpSucceeded
    /\ ret.action \in {"cond", "sim"}
    /\ ret.state # ret.arg
    /\ mem = ret.state

\* C4: a transition leaves the state object it was given as it was, keys
\* and values, whether it succeeds or fails.
C4_InputNotMutated ==
    ret.op = "next" => ret.after = ret.arg

\* C5: a transition on an action with a violated precondition gives back
\* the failure signal, neither a state nor an exception, records in the
\* last error a violated precondition and the action, and applies nothing.
C5_FailureRecordedAndSignalled ==
    (impl = "up" /\ ret.op = "next"
        /\ ~AllPreconditionsHold(ret.action, ArgAssignments))
    => /\ ret.kind = "false"
       /\ ret.state = <<>>
       /\ last_error.st = "msg"
       /\ last_error.a = ret.action
       /\ last_error.p \in 1..Len(ActionOf(ret.action).preconditions)
       /\ ~IsTrue(SubsSimplify(ActionOf(ret.action).preconditions[last_error.p],
                               ArgAssignments))
       /\ mem = ret.arg

C5_Witness ==
    /\ impl = "up"
    /\ ret.op = "next"
    /\ ret.action = "inc"
    /\ ret.kind = "false"
    /\ last_error = ErrMsg(2, "inc")

\* The goals before position j are all the constant true under asg, so
\* the goal test gets as far as goal j.
GoalReached(j, asg) ==
    \A i \in 1..(j - 1) : IsTrue(SubsSimplify(Goals[i], asg))

\* Some goal does not simplify to a boolean constant under asg.
SomeGoalNotBoolean(asg) ==
    \E j \in 1..Len(Goals) : SubsSimplify(Goals[j], asg).k # "bool"

\* C6 as stated: a goal test that meets a goal which is not a boolean
\* constant ends in a fatal error, not in an ordinary false.
C6_NonBooleanGoalIsFatal ==
    (ret.op = "terminal"
        /\ \E j \in 1..Len(Goals) :
              /\ GoalReached(j, ArgAssignments)
              /\ SubsSimplify(Goals[j], ArgAssignments).k # "bool")
    => ret.kind = "assert"

\* C6 as amended: when a goal does not simplify to a boolean constant the
\* goal test gives the ordinary result false and raises nothing.
C6_NonBooleanGoalIsFalse ==
    (ret.op = "terminal" /\ SomeGoalNotBoolean(ArgAssignments))
        => (ret.kind = "bool" /\ ret.b = FALSE)

C6_Witness ==
    /\ ret.op = "terminal"
    /\ prob.goals = 5
    /\ GoalReached(2, ArgAssignments)
    /\ SubsSimplify(Goals[2], ArgAssignments).k = "int"
    /\ ret.kind = "bool"
    /\ ret.b = FALSE

\* C7: the goal test is true exactly when every goal is the constant true
\* in the state it is given, so true for no goals and false with one false
\* goal; it reads the state only, and its result is fixed by the state.
C7_GoalIffAllTrue ==
    (impl = "up" /\ ret.op = "terminal")
    => /\ ret.kind = "bool"
       /\ ret.b = (\A j \in 1..Len(Goals) :
                      IsTrue(SubsSimplify(Goals[j], ArgAssignments)))
       /\ ret.after = ret.arg
       /\ mem = ret.arg

C7_Witness ==
    /\ impl = "up"
    /\ ret.op = "terminal"
    /\ prob.goals = 4
    /\ ret.arg = <<IntV(1), IntV(0)>>
    /\ ret.b = FALSE

\* C8: the applicable actions are exactly the actions whose preconditions
\* are all the constant true in the state, each once, in declared order.
C8_ApplicableExactlyEnabled ==
    ret.op = "applicable"
        => ret.acts = SelectSeq(Acts,
                         LAMBDA n : AllPreconditionsHold(n, ArgAssignments))

\* The plan, run from position j on state, finds each action applicable
\* where it is applied and ends in a goal state.
RECURSIVE PlanRuns(_, _, _)
PlanRuns(state, plan, j) ==
    IF j > Len(plan) THEN IsTerminal(Keys, Goals, state)
    ELSE /\ AllPreconditionsHold(plan[j], Zip(Keys, state))
         /\ LET r == GetNextState(Keys, state, ActionOf(plan[j]), ErrNone)
            IN r.kind = "state" /\ PlanRuns(r.state, plan, j + 1)

C10_FrameAndTargets ==
    UpSucceeded =>
        \A j \in 1..Len(Keys) :
            /\ j <= Len(ret.state)
            /\ ret.state[j] =
                 IF IsTargeted(ActionOf(ret.action), Keys[j], ArgAssignments)
                 THEN ValueFromPreState(ActionOf(ret.action), Keys[j],
                                        ArgAssignments)
                 ELSE ret.arg[j]

C10_Witness ==
    /\ UpSucceeded
    /\ ret.action = "dec"
    /\ ret.arg[1] # prob.init[1]
    /\ ret.state[1] = ret.arg[1]
    /\ ret.state[2] # ret.arg[2]

\* The options are exactly a 'solver' that is a solver class and a
\* 'config' that is a dictionary.
WellFormedOptions(o) ==
    /\ DOMAIN o = {"solver", "config"}
    /\ IsSolverClass(o["solver"])
    /\ IsDict(o["config"])

\* C11: a constructor called with no options gives an engine with the
\* default solver IW and its default config; called with options that are
\* not exactly a solver class under 'solver' and a dictionary under
\* 'config' it raises and gives no engine.
C11_OnlyWellFormedOptionsBuild ==
    built.kind # "none" =>
        /\ NumOptions(options) = 0
              => (built.solver = "IW" /\ built.config = "default_config")
        /\ (NumOptions(options) # 0 /\ ~WellFormedOptions(options))
              => built.kind \in {"RuntimeError", "TypeError"}

\* The assignments the guards and effects of the last transition were
\* computed under: the state passed in, with the action's parameters bound
\* in the adapter that binds them.
PreAssignments == IF impl = "upf" THEN ret.after ELSE Zip(Keys, ret.arg)

\* The value the state returned by the last transition gives to key j.
ResultValue(j) ==
    IF impl = "upf" THEN Get(ret.state, Keys[j]) ELSE ret.state[j]

\* Some guard of action a does not simplify to a boolean constant.
SomeGuardNotBoolean(a, asg) ==
    \E j \in 1..Len(a.effects) :
        /\ a.effects[j].conditional
        /\ SubsSimplify(a.effects[j].condition, asg).k # "bool"

\* The value the last applied effect of a on f writes, from asg alone.
LastEffectValue(a, f, asg) ==
    LET e == a.effects[Last(EffectWriters(a, f, asg))]
    IN CASE e.kind = "assign" -> SubsSimplify(e.value, asg)
         [] e.kind = "increase" ->
               IntV(Get(asg, f).i + SubsSimplify(e.value, asg).i)
         [] e.kind = "decrease" ->
               IntV(Get(asg, f).i - SubsSimplify(e.value, asg).i)

\* C12: a transition that gets to its effects computes each guard from the
\* pre-transition state; an effect whose guard is false writes nothing, so
\* its target keeps its value unless something else writes it, one whose
\* guard is true writes as an unguarded effect does, and a guard that is
\* not a boolean constant ends the transition in an error, with no state
\* returned.
C12_GuardsDecideEffects ==
    (/\ impl \in {"up", "upf"}
     /\ ret.op = "next"
     /\ impl = "up" => AllPreconditionsHold(ret.action, ArgAssignments))
    => IF SomeGuardNotBoolean(ActionOf(ret.action), PreAssignments)
       THEN ret.kind = "assert" /\ ret.state = <<>>
       ELSE /\ ret.kind = "state"
            /\ \A j \in 1..Len(Keys) :
                  \/ impl = "up" /\ SimWriters(ActionOf(ret.action), Keys[j]) # {}
                  \/ ResultValue(j) =
                       IF EffectWriters(ActionOf(ret.action), Keys[j],
                                        PreAssignments) # {}
                       THEN LastEffectValue(ActionOf(ret.action), Keys[j],
                                            PreAssignments)
                       ELSE Get(PreAssignments, Keys[j])

C12_Witness ==
    /\ impl = "up"
    /\ ret.op = "next"
    /\ ret.action = "cond"
    /\ ret.arg = <<IntV(1), IntV(2)>>
    /\ ret.kind = "state"
    /\ ret.state = <<IntV(0), IntV(2)>>

\* The least position of a precondition of the action named n that is not
\* the constant true under asg.
LeastViolated(n, asg) ==
    CHOOSE j \in 1..Len(ActionOf(n).preconditions) :
        /\ ~IsTrue(SubsSimplify(ActionOf(n).preconditions[j], asg))
        /\ \A i \in 1..(j - 1) :
              IsTrue(SubsSimplify(ActionOf(n).preconditions[i], asg))

\* What one call does to the last error, the call being the one the next
\* state records: reset empties it, a failed transition puts in the message
\* of the first violated precondition, every other call leaves it alone.
LastErrorStep ==
    impl = "up" =>
        /\ ret'.op = "reset" => last_error' = ErrNone
        /\ (ret'.op = "next" /\ ret'.kind = "false")
              => last_error' =
                    ErrMsg(LeastViolated(ret'.action, Zip(Keys, ret'.arg)),
                           ret'.action)
        /\ (ret'.op = "next" /\ ret'.kind # "false")
              => last_error' = last_error
        /\ ret'.op \in {"terminal", "applicable"} => last_error' = last_error

\* C13: the last error is emptied by reset only; a failed transition writes
\* the message of the first violated precondition and a successful one
\* leaves the field as it is, so it is empty exactly when no transition has
\* failed since the last reset.
C13_LastErrorClearedOnlyByReset == [][LastErrorStep]_vars

\* A successful transition made after a failed one: the earlier failure is
\* still what the last error reports.
C13_Witness ==
    /\ impl = "up"
    /\ ret.op = "next"
    /\ ret.kind = "state"
    /\ ret.action = "shift"
    /\ last_error = ErrMsg(1, "dec")

\* C14: each iteration of the rollout loop performs one transition and
\* appends one action, and the loop is left only on a terminal state: when
\* _solve has returned the plan is as long as the number of transitions
\* performed, it is empty exactly when the initial state is a goal state,
\* the rollout state is terminal and the status is SOLVED_SATISFICING;
\* no other status is ever given.
C14_RolloutReturnsOnlyOnTerminal ==
    /\ rollout.status \in {"", "SOLVED_SATISFICING"}
    /\ rollout.status # "" => rollout.pc = "returned"
    /\ rollout.pc \in {"loop", "returned"}
          => Len(rollout.plan) = rollout.steps
    /\ rollout.pc = "returned"
          => /\ rollout.status = "SOLVED_SATISFICING"
             /\ rollout.valid
             /\ IsTerminal(Keys, Goals, rollout.state)
             /\ (rollout.plan = <<>>) = IsTerminal(Keys, Goals, prob.init)

C14_Witness ==
    /\ impl = "engine"
    /\ rollout.pc = "returned"
    /\ rollout.steps = 2
    /\ Len(rollout.plan) = 2
    /\ ~IsTerminal(Keys, Goals, prob.init)

====
